---- MODULE Spec2Model ----
(***************************************************************************)
(* partybal (invoke.py): the incremental cache (Cache), the file naming    *)
(* helpers and the invoke command with its worker pool.                    *)
(*                                                                         *)
(* Times are counted in ticks of the datetime resolution; MinTime is       *)
(* datetime.min.  File names and identifiers are sequences of tokens: "_"  *)
(* and "." are tokens of their own, every other token is a run of          *)
(* characters holding neither.                                             *)
(***************************************************************************)
EXTENDS Integers, Sequences, FiniteSets, TLC

\* ---------------------------------------------------------------- bounds
MaxTime == 2
MaxJ == 2
MaxAgo == 2
MaxIdLen == 3

\* datetime.min.replace(tzinfo=UTC)
MinTime == 0

Time == MinTime..MaxTime

\* ------------------------------------------------------ optional values
None == [some |-> FALSE, t |-> MinTime]
Some(t) == [some |-> TRUE, t |-> t]

\* ------------------------------------------------------- text of a file
\* The text of the marker file or of a date argument: the ISO-8601 text of
\* a timestamp, any other text ("junk"), or the empty string, each with or
\* without a trailing newline.
IsoFormat(t) == [kind |-> "iso", t |-> t, nl |-> FALSE]
Junk == [kind |-> "junk", t |-> MinTime, nl |-> FALSE]
Empty == [kind |-> "empty", t |-> MinTime, nl |-> FALSE]
NoFile == [kind |-> "absent", t |-> MinTime, nl |-> FALSE]

\* text + "\n"
AppendNewline(txt) == [txt EXCEPT !.nl = TRUE]

\* str.strip(): the trailing newline goes
Strip(txt) == [txt EXCEPT !.nl = FALSE]

\* a string is truthy unless it is empty
Truthy(txt) == ~(txt.kind = "empty" /\ ~txt.nl)

\* A result of a call: a value, or the exception it raised.
Ok(v) == [ok |-> TRUE, val |-> v, err |-> "none"]
Raise(e) == [ok |-> FALSE, val |-> {}, err |-> e]

\* dateutil.parser.isoparse: fails on anything but the bare ISO text
IsoParse(txt) ==
    IF txt.kind = "iso" /\ ~txt.nl THEN Ok(txt.t) ELSE Raise("ValueError")

\* ----------------------------------------------------------- file names
Periods == {"overall", "weekly", "daily"}

\* f"statistics_{slug}_{period}.json" of ResultSet.get_result
FileFor(slug, period) ==
    <<"statistics", "_">> \o slug \o <<"_", period, ".", "json">>

\* Path.suffix: from the last "." of the name on; empty when the name has
\* no ".", or only a leading or a trailing one
Suffix(name) ==
    LET dots == {i \in 1..Len(name) : name[i] = "."}
    IN  IF dots = {} THEN <<>>
        ELSE LET d == CHOOSE i \in dots : \A k \in dots : k <= i
             IN  IF 1 < d /\ d < Len(name) THEN SubSeq(name, d, Len(name))
                 ELSE <<>>

\* str.endswith("json") of a suffix
EndsWithJson(suffix) == suffix # <<>> /\ suffix[Len(suffix)] = "json"

\* str.rsplit("_", 1)[0]
RSplitHead(s) ==
    LET us == {i \in 1..Len(s) : s[i] = "_"}
    IN  IF us = {} THEN s
        ELSE LET u == CHOOSE i \in us : \A k \in us : k <= i
             IN  SubSeq(s, 1, u - 1)

\* SplitFirst with the split made at every "_": split("_") for split("_", 1)
RECURSIVE SplitFirst_Every(_)
SplitFirst_Every(s) ==
    LET us == {i \in 1..Len(s) : s[i] = "_"}
    IN  IF us = {} THEN <<s>>
        ELSE LET u == CHOOSE i \in us : \A k \in us : i <= k
             IN  <<SubSeq(s, 1, u - 1)>>
                     \o SplitFirst_Every(SubSeq(s, u + 1, Len(s)))

\* str.split("_", 1): the list of one or two parts
SplitFirst(s) ==
    LET us == {i \in 1..Len(s) : s[i] = "_"}
    IN  IF us = {} THEN <<s>>
        ELSE LET u == CHOOSE i \in us : \A k \in us : i <= k
             IN  <<SubSeq(s, 1, u - 1), SubSeq(s, u + 1, Len(s))>>

\* An Optional[str]
NoSlug == [some |-> FALSE, slug |-> <<>>]
SomeSlug(s) == [some |-> TRUE, slug |-> s]

SlugFromFilename(name) ==
    IF ~EndsWithJson(Suffix(name))
    THEN Ok(NoSlug)
    ELSE LET parts == SplitFirst(RSplitHead(name))
         IN  IF Len(parts) < 2 THEN Raise("IndexError")
             ELSE Ok(SomeSlug(parts[2]))

\* ------------------------------------------------------------ the cache
\* An Optional[str] date argument
NoDate == [some |-> FALSE, txt |-> Empty]
SomeDate(txt) == [some |-> TRUE, txt |-> txt]

\* MarkCompleteText with a clock that runs behind the one that stamps the
\* files (the local time taken for UTC)
MarkCompleteText_ClockBehind(date, clock) ==
    IF date.some /\ Truthy(date.txt) THEN date.txt
    ELSE AppendNewline(IsoFormat(clock - 1))

\* Cache.mark_complete: the text written to the marker file,
\* date or (datetime.now(UTC).isoformat() + "\n")
MarkCompleteText(date, clock) ==
    IF date.some /\ Truthy(date.txt) THEN date.txt
    ELSE AppendNewline(IsoFormat(clock))

\* LastRun without the strip() of the text read
LastRun_NoStrip(m) ==
    LET r == IF m.kind = "absent" THEN Raise("FileNotFoundError")
             ELSE IsoParse(m)
    IN  IF r.ok THEN r.val ELSE MinTime

\* Cache.last_run: the parsed marker, datetime.min on any failure
LastRun(m) ==
    LET r == IF m.kind = "absent" THEN Raise("FileNotFoundError")
             ELSE IsoParse(Strip(m))
    IN  IF r.ok THEN r.val ELSE MinTime

\* IsNewer with >= for >
IsNewer_OrEqual(mtime, last_run) == mtime >= last_run

\* the test of the scan loop on one file's modification time
IsNewer(mtime, last_run) == mtime > last_run

\* the loop of Cache.new_since_last_run over the directory listing, in the
\* order the listing yields the entries
RECURSIVE ScanDir(_, _, _)
ScanDir(dir, todo, last_run) ==
    IF todo = {} THEN <<>>
    ELSE LET p == CHOOSE x \in todo : TRUE
         IN  (IF IsNewer(dir[p], last_run) THEN <<p>> ELSE <<>>)
             \o ScanDir(dir, todo \ {p}, last_run)

\* Cache.new_since_last_run: the list of paths, or the exception of
\* iterdir() on a directory that does not exist
NewSinceLastRun(dirOk, dir, m, last_run) ==
    LET last == IF last_run.some THEN last_run.t ELSE LastRun(m)
    IN  IF ~dirOk THEN Raise("FileNotFoundError")
        ELSE Ok(ScanDir(dir, DOMAIN dir, last))

\* the elements of a list
Range(s) == {s[i] : i \in 1..Len(s)}

\* The persisted metadata blob: absent, or the registry keyed by
\* filename_slug
NoBlob == [exists |-> FALSE, exps |-> {}]
BlobOf(exps) == [exists |-> TRUE, exps |-> exps]

\* Experiments answering with an empty registry when there is no blob
Experiments_EmptyDefault(b) ==
    IF b.exists THEN Ok(b.exps) ELSE Ok({})

\* Cache.experiments
Experiments(b) ==
    IF b.exists THEN Ok(b.exps) ELSE Raise("FileNotFoundError")

\* Contains answering yes for every identifier
Contains_Always(exps, slug) == TRUE

\* ExperimentCollection.__contains__
Contains(exps, slug) == slug \in exps

\* ------------------------------------------------------------ universe
\* The experiments of the upstream feeds and the objects of the bucket.
IdA == <<"a">>
IdAB == <<"a", "_", "b">>
UpstreamIds == {IdA, IdAB}
BucketNames ==
    {FileFor(IdA, "overall"), FileFor(IdA, "daily"), FileFor(IdAB, "weekly")}
TransferOutputs == {"CommandException", "ServiceException"}

VARIABLES
    now,        \* the wall clock
    cacheDir,   \* the cache root exists
    resultsDir, \* the results subdirectory exists
    results,    \* mirrored file name -> modification time
    marker,     \* text of the last_run file
    blob,       \* experiments.json
    outputDir,  \* the output directory exists
    pc,         \* position of the running command or call
    did,        \* steps of this run that completed
    exc,        \* the exception that ended this run
    mirrorOut,  \* return code and output of the mirror subprocess
    since,      \* the last_run argument of the scan of this run
    changed,    \* slugs_to_analyze
    workers,    \* threads of the worker pool
    toRun,      \* to_run, in submission order
    task,       \* to_run member -> state of its future
    collected,  \* futures the result iterator has consumed
    rendered,   \* slug -> "never", "failed", "ok" (ok once, ok for good)
    settled,    \* mark_complete() ran and the cache is as it left it
    stamp,      \* the timestamp the last mark_complete was given
    registry,   \* the registry the last successful sync normalised
    ret         \* the last call observed and what it returned

vars == <<now, cacheDir, resultsDir, results, marker, blob, outputDir, pc,
          did, exc, mirrorOut, changed, workers, toRun, task, collected,
          rendered, settled, stamp, ret, since, registry>>

\* no sync has succeeded since the cache was made or cleaned
NoRegistry == [some |-> FALSE, exps |-> {}]
RegistryOf(exps) == [some |-> TRUE, exps |-> exps]

NoExc == [at |-> "none", msg |-> "none"]
NoOut == [rc |-> 0, out |-> "none"]
NoRet == [op |-> "none", arg |-> None, res |-> Ok({})]
NoTasks == [e \in {} |-> "pending"]
NoFiles == [p \in {} |-> MinTime]

\* Nothing is on disk yet and nothing runs.
InitCache ==
    /\ now = MinTime + 1
    /\ cacheDir = FALSE
    /\ resultsDir = FALSE
    /\ results = NoFiles
    /\ marker = NoFile
    /\ blob = NoBlob
    /\ outputDir \in BOOLEAN
    /\ pc = "idle"
    /\ did = {}
    /\ exc = NoExc
    /\ mirrorOut = NoOut
    /\ changed = {}
    /\ workers = 1
    /\ toRun = <<>>
    /\ task = NoTasks
    /\ collected = 0
    /\ rendered = [e \in UpstreamIds |-> "never"]
    /\ settled = FALSE
    /\ stamp = MinTime
    /\ since = None
    /\ registry = NoRegistry

Init ==
    /\ InitCache
    /\ ret = NoRet

\* the wall clock advances
Tick ==
    /\ now < MaxTime
    /\ now' = now + 1
    /\ UNCHANGED <<cacheDir, resultsDir, results, marker, blob, outputDir,
                   pc, did, exc, mirrorOut, changed, workers, toRun, task,
                   collected, rendered, settled, stamp, ret>>
    /\ UNCHANGED <<since, registry>>

\* ------------------------------------------------------------- sync
\* What gsutil rsync -d -r can leave in the results directory: every file
\* is gone (not in the bucket), as it was (not transferred), or written now.
MirrorOutcomes(dir, clock) ==
    {d \in UNION {[S -> Time] : S \in SUBSET BucketNames} :
        \A p \in DOMAIN d :
            d[p] = clock \/ (p \in DOMAIN dir /\ d[p] = dir[p])}

\* the results of the mirror subprocess: return code and output
MirrorResults ==
    {[rc |-> 0, out |-> "none"]}
        \cup {[rc |-> 1, out |-> o] : o \in TransferOutputs}

\* AfterMirror with the scan started as soon as the mirror is done, the
\* metadata not fetched first
AfterMirror_SkipMetadata(rc) == IF rc # 0 THEN "failed" ELSE "scan"

\* AfterMirror with the return code of the mirror subprocess ignored
AfterMirror_IgnoreRc(rc) == "meta"

\* where sync goes after the mirror subprocess returned rc
AfterMirror(rc) == IF rc # 0 THEN "failed" ELSE "meta"

\* Cache.sync, first half: the results directory is made and the mirror
\* subprocess runs; a nonzero return code raises Exception(result.stdout)
SyncMirror(r, d) ==
    /\ pc = "mirror"
    /\ cacheDir' = TRUE
    /\ resultsDir' = TRUE
    /\ results' = d
    /\ mirrorOut' = r
    /\ pc' = AfterMirror(r.rc)
    /\ exc' = IF pc' = "failed" THEN [at |-> "mirror", msg |-> r.out] ELSE exc
    /\ did' = IF pc' = "failed" THEN did ELSE did \cup {"mirror"}
    /\ settled' = (settled /\ d = results)
    /\ ret' = NoRet
    /\ UNCHANGED <<now, marker, blob, outputDir, changed, workers, toRun,
                   task, collected, rendered, stamp>>
    /\ UNCHANGED <<since, registry>>

\* Cache.sync, second half: the feeds are fetched and normalised, then the
\* blob is written; a failing fetch raises before the write
SyncMetadata(fetched, exps) ==
    /\ pc = "meta"
    /\ IF fetched
       THEN /\ blob' = BlobOf(exps)
            /\ registry' = RegistryOf(exps)
            /\ did' = did \cup {"meta"}
            /\ pc' = "scan"
            /\ exc' = exc
       ELSE /\ blob' = blob
            /\ registry' = registry
            /\ did' = did
            /\ pc' = "failed"
            /\ exc' = [at |-> "meta", msg |-> "RequestException"]
    /\ UNCHANGED <<now, cacheDir, resultsDir, results, marker, outputDir,
                   mirrorOut, changed, workers, toRun, task, collected,
                   rendered, settled, stamp, ret>>
    /\ UNCHANGED <<since>>

\* ---------------------------------------------------------- invoke
\* the command starts: Cache(cache), then cache.sync() is entered
InvokeStart ==
    /\ pc = "idle"
    /\ pc' = "mirror"
    /\ UNCHANGED <<now, cacheDir, resultsDir, results, marker, blob,
                   outputDir, did, exc, mirrorOut, changed, workers, toRun,
                   task, collected, rendered, settled, stamp, ret>>
    /\ UNCHANGED <<since, registry>>

\* last_run of invoke: now - updated_seconds_ago when the option is given
\* and not zero
SinceOption(x, clock) == IF x # 0 THEN Some(clock - x) ELSE None

\* {slug_from_filename(p) for p in paths}, None discarded; the first
\* exception of slug_from_filename propagates
SlugsOf(paths) ==
    IF \E p \in paths : ~SlugFromFilename(p).ok THEN Raise("IndexError")
    ELSE Ok({SlugFromFilename(p).val.slug :
                p \in {q \in paths : SlugFromFilename(q).val.some}})

\* invoke: the changed-file scan, slugs_to_analyze; x is
\* --updated-seconds-ago (0: not given)
InvokeScan(x) ==
    /\ pc = "scan"
    /\ now - x >= MinTime
    /\ LET found == NewSinceLastRun(resultsDir, results, marker,
                                    SinceOption(x, now))
           slugs == IF found.ok THEN SlugsOf(Range(found.val)) ELSE found
       IN  IF slugs.ok
           THEN /\ changed' = slugs.val
                /\ since' = SinceOption(x, now)
                /\ did' = did \cup {"scan"}
                /\ pc' = "submit"
                /\ exc' = exc
           ELSE /\ changed' = changed
                /\ since' = since
                /\ did' = did
                /\ pc' = "failed"
                /\ exc' = [at |-> "scan", msg |-> slugs.err]
    /\ UNCHANGED <<now, cacheDir, resultsDir, results, marker, blob,
                   outputDir, mirrorOut, workers, toRun, task, collected,
                   rendered, settled, stamp, ret>>
    /\ UNCHANGED <<registry>>

\* the orders a list built from a set can have
Orders(S) ==
    {q \in [1..Cardinality(S) -> S] : \A e \in S : \E i \in DOMAIN q : q[i] = e}

\* j or os.cpu_count()
PoolSize(j, cpus) == IF j # 0 THEN j ELSE cpus

\* the threads a pool of max_workers starts for n work items: submit starts
\* one per item until max_workers are running
PoolThreads(max_workers, n) == IF max_workers < n THEN max_workers ELSE n

\* invoke: cache.experiments, to_run, the pool of j or os.cpu_count()
\* workers, and executor.map submitting every member of to_run to it
InvokeSubmit(order, j, cpus) ==
    /\ pc = "submit"
    /\ LET experiments == Experiments(blob)
       IN  IF experiments.ok
           THEN /\ order \in Orders({e \in changed :
                                        Contains(experiments.val, e)})
                /\ toRun' = order
                /\ task' = [e \in Range(order) |-> "pending"]
                /\ workers' = PoolThreads(PoolSize(j, cpus), Len(order))
                /\ pc' = "collect"
                /\ exc' = exc
           ELSE /\ order = <<>>
                /\ toRun' = toRun
                /\ task' = task
                /\ workers' = workers
                /\ pc' = "failed"
                /\ exc' = [at |-> "load", msg |-> experiments.err]
    /\ UNCHANGED <<now, cacheDir, resultsDir, results, marker, blob,
                   outputDir, did, mirrorOut, changed, collected, rendered,
                   settled, stamp, ret>>
    /\ UNCHANGED <<since, registry>>

\* ------------------------------------------------------ the worker pool
Running == {e \in DOMAIN task : task[e] = "running"}

\* the work queue is first in, first out: the next work item is the first
\* of to_run that is still pending
NextPending(e) ==
    \E i \in 1..Len(toRun) :
        /\ toRun[i] = e
        /\ task[e] = "pending"
        /\ \A k \in 1..(i - 1) : task[toRun[k]] # "pending"

\* a worker takes the next work item: render() starts, output.mkdir
TaskStart(e) ==
    /\ pc \in {"collect", "shutdown"}
    /\ e \in DOMAIN task
    /\ NextPending(e)
    /\ Cardinality(Running) < workers
    /\ task' = [task EXCEPT ![e] = "running"]
    /\ outputDir' = TRUE
    /\ UNCHANGED <<now, cacheDir, resultsDir, results, marker, blob, pc,
                   did, exc, mirrorOut, changed, workers, toRun, collected,
                   rendered, settled, stamp, ret>>
    /\ UNCHANGED <<since, registry>>

\* render() returns: the renderer exited with rc, "ok" or "error" printed
RenderReturn(e, rc) ==
    /\ e \in DOMAIN task
    /\ task[e] = "running"
    /\ task' = [task EXCEPT ![e] = IF rc = 0 THEN "ok" ELSE "error"]
    /\ rendered' = [rendered EXCEPT ![e] =
                        IF rc = 0 \/ @ = "ok" THEN "ok" ELSE "failed"]
    /\ UNCHANGED <<now, cacheDir, resultsDir, results, marker, blob,
                   outputDir, pc, did, exc, mirrorOut, changed, workers,
                   toRun, collected, settled, stamp, ret>>
    /\ UNCHANGED <<since, registry>>

\* render() raises: experiment.render(cache.path) failed while building
\* the report (a result file that does not parse), before the renderer ran
RenderRaise(e) ==
    /\ e \in DOMAIN task
    /\ task[e] = "running"
    /\ task' = [task EXCEPT ![e] = "raised"]
    /\ rendered' = [rendered EXCEPT ![e] = IF @ = "ok" THEN "ok" ELSE "failed"]
    /\ UNCHANGED <<now, cacheDir, resultsDir, results, marker, blob,
                   outputDir, pc, did, exc, mirrorOut, changed, workers,
                   toRun, collected, settled, stamp, ret>>
    /\ UNCHANGED <<since, registry>>

\* Future.done() of a task that ran
Returned(st) == st \in {"ok", "error", "raised"}

\* Future.cancel() on every future not yet consumed: a pending one is
\* cancelled, a running or finished one is left alone
CancelRest(from) ==
    [e \in DOMAIN task |->
        IF task[e] = "pending" /\ \E i \in from..Len(toRun) : toRun[i] = e
        THEN "cancelled" ELSE task[e]]

\* ResultIterator with the tasks submitted and never waited for: no list()
\* around executor.map, no with block around the pool
ResultIterator_NoWait ==
    /\ pc = "collect"
    /\ pc' = "index"
    /\ did' = did \cup {"render"}
    /\ UNCHANGED <<now, cacheDir, resultsDir, results, marker, blob,
                   outputDir, exc, mirrorOut, changed, workers, toRun, task,
                   collected, rendered, settled, stamp, ret>>
    /\ UNCHANGED <<since, registry>>

\* list(executor.map(...)): the result iterator consumes the futures in
\* submission order, waiting for each; the first exception of a task is
\* raised again, the futures not yet consumed are cancelled, and the with
\* block is left
ResultIterator ==
    /\ pc = "collect"
    /\ IF collected = Len(toRun)
       THEN /\ pc' = "shutdown"
            /\ UNCHANGED <<task, collected, exc>>
       ELSE LET e == toRun[collected + 1]
            IN  /\ Returned(task[e])
                /\ collected' = collected + 1
                /\ IF task[e] = "raised"
                   THEN /\ exc' = [at |-> "render", msg |-> "ValueError"]
                        /\ task' = CancelRest(collected + 2)
                        /\ pc' = "shutdown"
                   ELSE /\ UNCHANGED <<exc, task, pc>>
    /\ UNCHANGED <<now, cacheDir, resultsDir, results, marker, blob,
                   outputDir, did, mirrorOut, changed, workers, toRun,
                   rendered, settled, stamp, ret>>
    /\ UNCHANGED <<since, registry>>

\* PoolShutdown with the exception of a task swallowed: invoke goes on
PoolShutdown_Swallows ==
    /\ pc = "shutdown"
    /\ \A e \in DOMAIN task : task[e] \notin {"pending", "running"}
    /\ pc' = "index"
    /\ did' = did \cup {"render"}
    /\ UNCHANGED <<now, cacheDir, resultsDir, results, marker, blob,
                   outputDir, exc, mirrorOut, changed, workers, toRun, task,
                   collected, rendered, settled, stamp, ret>>
    /\ UNCHANGED <<since, registry>>

\* the with block ends: shutdown(wait=True) joins the workers, which first
\* drain the queue
PoolShutdown ==
    /\ pc = "shutdown"
    /\ \A e \in DOMAIN task : task[e] \notin {"pending", "running"}
    /\ pc' = IF exc = NoExc THEN "index" ELSE "failed"
    /\ did' = IF exc = NoExc THEN did \cup {"render"} ELSE did
    /\ UNCHANGED <<now, cacheDir, resultsDir, results, marker, blob,
                   outputDir, exc, mirrorOut, changed, workers, toRun, task,
                   collected, rendered, settled, stamp, ret>>
    /\ UNCHANGED <<since, registry>>

\* (output / "index.html").write_text(render_index(experiments, cache)):
\* render_index lists every mirrored file; the write needs the output
\* directory, which only render() makes
WriteIndex ==
    /\ pc = "index"
    /\ LET found == NewSinceLastRun(resultsDir, results, marker, Some(MinTime))
           slugs == IF found.ok THEN SlugsOf(Range(found.val)) ELSE found
           fail == IF ~slugs.ok THEN slugs.err
                   ELSE IF ~outputDir THEN "FileNotFoundError" ELSE "none"
       IN  IF fail = "none"
           THEN /\ did' = did \cup {"index"}
                /\ pc' = "mark"
                /\ exc' = exc
           ELSE /\ did' = did
                /\ pc' = "failed"
                /\ exc' = [at |-> "index", msg |-> fail]
    /\ UNCHANGED <<now, cacheDir, resultsDir, results, marker, blob,
                   outputDir, mirrorOut, changed, workers, toRun, task,
                   collected, rendered, settled, stamp, ret>>
    /\ UNCHANGED <<since, registry>>

\* InvokeMark leaving the marker alone when --updated-seconds-ago was given
InvokeMark_NotWithOption ==
    /\ pc = "mark"
    /\ cacheDir' = TRUE
    /\ marker' = IF since.some THEN marker ELSE MarkCompleteText(NoDate, now)
    /\ stamp' = IF since.some THEN stamp ELSE now
    /\ settled' = TRUE
    /\ did' = did \cup {"mark"}
    /\ pc' = "done"
    /\ UNCHANGED <<now, resultsDir, results, blob, outputDir, exc,
                   mirrorOut, changed, workers, toRun, task, collected,
                   rendered, ret>>
    /\ UNCHANGED <<since, registry>>

\* cache.mark_complete(), the last statement of invoke
InvokeMark ==
    /\ pc = "mark"
    /\ cacheDir' = TRUE
    /\ marker' = MarkCompleteText(NoDate, now)
    /\ stamp' = now
    /\ settled' = TRUE
    /\ did' = did \cup {"mark"}
    /\ pc' = "done"
    /\ UNCHANGED <<now, resultsDir, results, blob, outputDir, exc,
                   mirrorOut, changed, workers, toRun, task, collected,
                   rendered, ret>>
    /\ UNCHANGED <<since, registry>>

\* the command ends, normally or with the exception
InvokeExit ==
    /\ pc \in {"done", "failed"}
    /\ pc' = "idle"
    /\ did' = {}
    /\ exc' = NoExc
    /\ mirrorOut' = NoOut
    /\ changed' = {}
    /\ since' = None
    /\ workers' = 1
    /\ toRun' = <<>>
    /\ task' = NoTasks
    /\ collected' = 0
    /\ UNCHANGED <<now, cacheDir, resultsDir, results, marker, blob,
                   outputDir, rendered, settled, stamp, ret>>
    /\ UNCHANGED <<registry>>

\* Cache.clean(): shutil.rmtree(self.path), the clean command
Clean ==
    /\ pc = "idle"
    /\ cacheDir
    /\ cacheDir' = FALSE
    /\ resultsDir' = FALSE
    /\ results' = NoFiles
    /\ marker' = NoFile
    /\ blob' = NoBlob
    /\ registry' = NoRegistry
    /\ stamp' = MinTime
    /\ settled' = FALSE
    /\ ret' = NoRet
    /\ UNCHANGED <<now, outputDir, pc, did, exc, mirrorOut, changed,
                   workers, toRun, task, collected, rendered>>
    /\ UNCHANGED <<since>>

Next ==
    \/ Tick
    \/ InvokeStart
    \/ \E r \in MirrorResults, d \in MirrorOutcomes(results, now) :
           SyncMirror(r, d)
    \/ \E fetched \in BOOLEAN, exps \in SUBSET UpstreamIds :
           SyncMetadata(fetched, exps)
    \/ \E x \in 0..MaxAgo : InvokeScan(x)
    \/ \E order \in UNION {Orders(S) : S \in SUBSET changed}, j \in 0..MaxJ,
          cpus \in 1..MaxJ : InvokeSubmit(order, j, cpus)
    \/ \E e \in UpstreamIds : TaskStart(e)
    \/ \E e \in UpstreamIds, rc \in {0, 1} : RenderReturn(e, rc)
    \/ \E e \in UpstreamIds : RenderRaise(e)
    \/ ResultIterator
    \/ PoolShutdown
    \/ WriteIndex
    \/ InvokeMark
    \/ InvokeExit
    \/ Clean

\* The commands: invoke and clean, one after the other.
Spec == Init /\ [][Next]_vars

\* ------------------------------------------- the cache, called directly
\* cache.sync() is called
CallSync ==
    /\ pc = "idle"
    /\ pc' = "mirror"
    /\ UNCHANGED <<now, cacheDir, resultsDir, results, marker, blob,
                   outputDir, did, exc, mirrorOut, changed, workers, toRun,
                   task, collected, rendered, settled, stamp, ret>>
    /\ UNCHANGED <<since, registry>>

\* cache.sync() returns or raises to its caller
SyncReturn ==
    /\ pc \in {"scan", "failed"}
    /\ pc' = "idle"
    /\ did' = {}
    /\ exc' = NoExc
    /\ mirrorOut' = NoOut
    /\ UNCHANGED <<now, cacheDir, resultsDir, results, marker, blob,
                   outputDir, changed, workers, toRun, task, collected,
                   rendered, settled, stamp, ret>>
    /\ UNCHANGED <<since, registry>>

\* the date arguments mark_complete is called with
DateArgs ==
    {NoDate, SomeDate(Empty), SomeDate(Junk)}
        \cup {SomeDate(IsoFormat(t)) : t \in Time}

\* the timestamp a date argument stands for, at the given clock
StampOf(date, clock) ==
    IF ~date.some \/ date.txt.kind = "empty" THEN clock
    ELSE IF date.txt.kind = "iso" THEN date.txt.t
    ELSE MinTime

\* Cache.mark_complete(date)
MarkComplete(date) ==
    /\ pc = "idle"
    /\ cacheDir' = TRUE
    /\ marker' = MarkCompleteText(date, now)
    /\ stamp' = StampOf(date, now)
    /\ settled' = (~date.some)
    /\ ret' = NoRet
    /\ UNCHANGED <<now, resultsDir, results, blob, outputDir, pc, did, exc,
                   mirrorOut, changed, workers, toRun, task, collected,
                   rendered>>
    /\ UNCHANGED <<since, registry>>

\* Cache.new_since_last_run(last_run)
QueryNewSince(arg) ==
    /\ pc = "idle"
    /\ ret' = [op |-> "new_since", arg |-> arg,
               res |-> NewSinceLastRun(resultsDir, results, marker, arg)]
    /\ UNCHANGED <<now, cacheDir, resultsDir, results, marker, blob,
                   outputDir, pc, did, exc, mirrorOut, changed, workers,
                   toRun, task, collected, rendered, settled, stamp>>
    /\ UNCHANGED <<since, registry>>

\* Cache.last_run
QueryLastRun ==
    /\ pc = "idle"
    /\ ret' = [op |-> "last_run", arg |-> None, res |-> Ok(LastRun(marker))]
    /\ UNCHANGED <<now, cacheDir, resultsDir, results, marker, blob,
                   outputDir, pc, did, exc, mirrorOut, changed, workers,
                   toRun, task, collected, rendered, settled, stamp>>
    /\ UNCHANGED <<since, registry>>

\* Cache.experiments
QueryExperiments ==
    /\ pc = "idle"
    /\ ret' = [op |-> "experiments", arg |-> None, res |-> Experiments(blob)]
    /\ UNCHANGED <<now, cacheDir, resultsDir, results, marker, blob,
                   outputDir, pc, did, exc, mirrorOut, changed, workers,
                   toRun, task, collected, rendered, settled, stamp>>
    /\ UNCHANGED <<since, registry>>

NextCache ==
    \/ Tick
    \/ CallSync
    \/ \E r \in MirrorResults, d \in MirrorOutcomes(results, now) :
           SyncMirror(r, d)
    \/ \E fetched \in BOOLEAN, exps \in SUBSET UpstreamIds :
           SyncMetadata(fetched, exps)
    \/ SyncReturn
    \/ \E date \in DateArgs : MarkComplete(date)
    \/ Clean
    \/ \E arg \in {None} \cup {Some(t) : t \in Time} : QueryNewSince(arg)
    \/ QueryLastRun
    \/ QueryExperiments

\* The operations of Cache, called one after the other by a program that
\* holds the cache.
SpecCache == Init /\ [][NextCache]_vars

\* ================================================================ claims
\* the slug of a mirrored file of the bucket
SlugOfFile(p) == SlugFromFilename(p).val.slug

\* the files a default new_since_last_run() returns in this state
DefaultNew ==
    Range(NewSinceLastRun(resultsDir, results, marker, None).val)

\* C1 (as claimed): between two invoke runs, a mirrored file whose
\* experiment's render was attempted and has not succeeded yet is still
\* returned by a default new_since_last_run(), so the next run selects the
\* experiment again
C1_FailedRenderSelectedAgain ==
    pc = "idle" =>
        \A p \in DOMAIN results :
            rendered[SlugOfFile(p)] = "failed" => p \in DefaultNew

\* C2: once the marker has been written in an invoke run, sync has
\* completed, the result iterator has consumed every submitted task, and
\* every task has returned; none is pending or running
C2_MarkAfterAllRenders ==
    "mark" \in did =>
        /\ {"mirror", "meta"} \subseteq did
        /\ DOMAIN task = Range(toRun)
        /\ collected = Len(toRun)
        /\ \A e \in DOMAIN task : task[e] \in {"ok", "error"}

C2_Witness ==
    /\ pc = "done"
    /\ "mark" \in did
    /\ \E e \in DOMAIN task : task[e] = "error"
    /\ \E e \in DOMAIN task : task[e] = "ok"

\* C3 (as claimed): when an invoke run is over after its tasks were
\* submitted, every member of to_run had its render started and returned,
\* whether renders failed by the renderer's exit status or by raising
C3_EveryRenderReturns ==
    pc \in {"done", "failed"} =>
        \A e \in DOMAIN task : Returned(task[e])

\* C4: in an invoke run the changed set is computed and tasks exist only
\* after both halves of sync completed; during sync there is no task; and
\* no step taken while a render is running writes the mirrored files or the
\* metadata blob
C4_SyncBeforeScanAndRenders ==
    /\ [](("scan" \in did \/ DOMAIN task # {})
              => {"mirror", "meta"} \subseteq did)
    /\ [](pc \in {"mirror", "meta"} => DOMAIN task = {} /\ changed = {})
    /\ [][Running # {} => results' = results /\ blob' = blob]_vars

C4_Witness ==
    /\ pc = "collect"
    /\ Cardinality(Running) = 2

\* C5: a nonzero status of the mirror subprocess ends the run with an
\* exception carrying the transfer output, before any scan, render, index
\* write or mark_complete; neither that step nor any later step of the run
\* changes the marker or the metadata blob
C5_MirrorFailureAborts ==
    /\ [](mirrorOut.rc # 0 =>
              /\ pc = "failed"
              /\ exc = [at |-> "mirror", msg |-> mirrorOut.out]
              /\ did = {}
              /\ changed = {}
              /\ DOMAIN task = {})
    /\ [][(pc = "mirror" /\ mirrorOut'.rc # 0) \/ mirrorOut.rc # 0
              => marker' = marker /\ blob' = blob /\ pc' \in {"failed", "idle"}]_vars

C5_Witness ==
    /\ pc = "failed"
    /\ mirrorOut.rc # 0
    /\ exc.msg \in TransferOutputs
    /\ marker.kind = "iso"
    /\ blob.exists
    /\ results # NoFiles

\* the since a recorded new_since_last_run call compared against: its
\* argument, or the timestamp last given to mark_complete
SinceOf(r) == IF r.arg.some THEN r.arg.t ELSE stamp

\* C6: new_since_last_run returns, each once, exactly the mirrored files
\* whose modification time is strictly greater than since (the argument, by
\* default the persisted marker); and on the same cache contents a call with
\* a later since returns a subset, one with an earlier since a superset
C6_NewSinceExactAndMonotonic ==
    (ret.op = "new_since" /\ ret.res.ok) =>
        /\ Range(ret.res.val) =
               {p \in DOMAIN results : results[p] > SinceOf(ret)}
        /\ Len(ret.res.val) = Cardinality(Range(ret.res.val))
        /\ \A t \in Time :
               LET other == Range(NewSinceLastRun(resultsDir, results,
                                                  marker, Some(t)).val)
               IN  /\ t > SinceOf(ret) => other \subseteq Range(ret.res.val)
                   /\ t < SinceOf(ret) => Range(ret.res.val) \subseteq other

C6_Witness ==
    /\ ret.op = "new_since"
    /\ ret.res.ok
    /\ \E p \in DOMAIN results : results[p] = SinceOf(ret)
    /\ \E p \in DOMAIN results : results[p] > SinceOf(ret)
    /\ Len(ret.res.val) = 1

\* C7: new_since_last_run with a since older than every mirrored file
\* returns all of them, with a since at or after every file's modification
\* time it returns none; and a default call made after mark_complete() ran,
\* with no file changed by a sync since, returns none
C7_AllOrNothing ==
    (ret.op = "new_since" /\ ret.res.ok) =>
        /\ (ret.arg.some /\ \A p \in DOMAIN results : ret.arg.t < results[p])
               => Range(ret.res.val) = DOMAIN results
        /\ (ret.arg.some /\ \A p \in DOMAIN results : ret.arg.t >= results[p])
               => ret.res.val = <<>>
        /\ (~ret.arg.some /\ settled) => ret.res.val = <<>>

C7_Witness ==
    /\ ret.op = "new_since"
    /\ ret.res.ok
    /\ ~ret.arg.some
    /\ settled
    /\ Cardinality(DOMAIN results) >= 2
    /\ \E p \in DOMAIN results : results[p] = stamp

\* C8 (as claimed): new_since_last_run called while the results
\* subdirectory does not exist returns the empty list
C8_MissingDirectoryIsEmpty ==
    (ret.op = "new_since" /\ ~resultsDir) =>
        (ret.res.ok /\ ret.res.val = <<>>)

\* C9: last_run reads the timestamp last given to mark_complete, whatever
\* sync and the queries did since; it reads datetime.min when the marker
\* file is absent (never written, or removed by clean) or does not parse
C9_MarkerRoundTrip ==
    ret.op = "last_run" =>
        /\ ret.res = Ok(stamp)
        /\ marker.kind \in {"absent", "junk"} =>
               /\ ret.res.val = MinTime
               /\ resultsDir => DefaultNew = DOMAIN results

C9_Witness ==
    /\ ret.op = "last_run"
    /\ marker.kind = "iso"
    /\ marker.nl
    /\ ret.res.val > MinTime
    /\ ret.res.val < now
    /\ results # NoFiles

\* ------------------------------------------------------- file naming
\* The tokens identifiers are made of, and the identifiers tried.
IdTokens == {"a", "_", ".", "json"}
Ids == UNION {[1..n -> IdTokens] : n \in 0..MaxIdLen}

\* an experiment identifier and a period are picked
InitNaming ==
    /\ InitCache
    /\ ret \in {[op |-> "pick", arg |-> [slug |-> id, period |-> per],
                 res |-> Ok(<<>>)] : id \in Ids, per \in Periods}

\* ResultSet.get_result builds the file name of the identifier and period
GetResultName ==
    /\ ret.op = "pick"
    /\ ret' = [op |-> "get_result", arg |-> ret.arg,
               res |-> Ok(FileFor(ret.arg.slug, ret.arg.period))]
    /\ UNCHANGED <<now, cacheDir, resultsDir, results, marker, blob,
                   outputDir, pc, did, exc, mirrorOut, changed, workers,
                   toRun, task, collected, rendered, settled, stamp>>
    /\ UNCHANGED <<since, registry>>

\* slug_from_filename is applied to the name built
ExtractSlug ==
    /\ ret.op = "get_result"
    /\ ret' = [op |-> "slug_from_filename", arg |-> ret.arg,
               res |-> SlugFromFilename(ret.res.val)]
    /\ UNCHANGED <<now, cacheDir, resultsDir, results, marker, blob,
                   outputDir, pc, did, exc, mirrorOut, changed, workers,
                   toRun, task, collected, rendered, settled, stamp>>
    /\ UNCHANGED <<since, registry>>

NextNaming ==
    \/ GetResultName
    \/ ExtractSlug

\* File names built and taken apart again.
SpecNaming == InitNaming /\ [][NextNaming]_vars

\* C10: slug_from_filename applied to the name get_result builds for an
\* identifier and a period returns exactly that identifier
C10_NamingRoundTrip ==
    ret.op = "slug_from_filename" => ret.res = Ok(SomeSlug(ret.arg.slug))

C10_Witness ==
    /\ ret.op = "slug_from_filename"
    /\ ret.res.ok
    /\ ret.arg.period = "weekly"
    /\ Len(ret.arg.slug) = MaxIdLen
    /\ ret.arg.slug[1] = "_"
    /\ ret.arg.slug[2] = "."
    /\ ret.arg.slug[MaxIdLen] = "_"

\* ------------------------------------------- stray files in the mirror
\* gsutil rsync mirrors whatever the bucket holds: next to a result file the
\* results directory can hold a file of any name.
MaxNameLen == 3
StrayTokens == {"a", "_", ".", "json", "txt"}
StrayNames == UNION {[1..n -> StrayTokens] : n \in 1..MaxNameLen}

\* the name has the form statistics_<identifier>_<period>.json
NamePattern(name) ==
    \E per \in Periods :
        /\ Len(name) >= 6
        /\ SubSeq(name, 1, 2) = <<"statistics", "_">>
        /\ SubSeq(name, Len(name) - 3, Len(name)) = <<"_", per, ".", "json">>

\* the files new_since_last_run returned: a result file and a stray one
Listing(stray) == {FileFor(IdA, "overall"), stray}

\* a stray file is in the results directory
InitStray ==
    /\ InitCache
    /\ ret \in {[op |-> "listing", arg |-> n, res |-> Ok(<<>>)] :
                   n \in StrayNames}

\* slug_from_filename is applied to the stray file
ExtractStray ==
    /\ ret.op = "listing"
    /\ ret' = [op |-> "slug_from_filename", arg |-> ret.arg,
               res |-> SlugFromFilename(ret.arg)]
    /\ UNCHANGED <<now, cacheDir, resultsDir, results, marker, blob,
                   outputDir, pc, did, exc, mirrorOut, changed, workers,
                   toRun, task, collected, rendered, settled, stamp>>
    /\ UNCHANGED <<since, registry>>

\* invoke and render_index build the set of identifiers of the listing
ScanListing ==
    /\ ret.op = "listing"
    /\ ret' = [op |-> "slugs_to_analyze", arg |-> ret.arg,
               res |-> SlugsOf(Listing(ret.arg))]
    /\ UNCHANGED <<now, cacheDir, resultsDir, results, marker, blob,
                   outputDir, pc, did, exc, mirrorOut, changed, workers,
                   toRun, task, collected, rendered, settled, stamp>>
    /\ UNCHANGED <<since, registry>>

NextStray ==
    \/ ExtractStray
    \/ ScanListing

\* Identifier extraction over a listing with a stray file.
SpecStray == InitStray /\ [][NextStray]_vars

\* C11 (as claimed): slug_from_filename never fails: a file whose name is
\* not of the form statistics_<identifier>_<period>.json yields no
\* identifier, and a listing that holds such a file still gives the set of
\* identifiers of its result files
C11_StrayFileSkipped ==
    /\ (ret.op = "slug_from_filename" /\ ~NamePattern(ret.arg)) =>
           (ret.res.ok /\ ~ret.res.val.some)
    /\ ret.op = "slugs_to_analyze" =>
           (ret.res.ok /\ ret.res.val = {IdA})

\* the files the scan of this run returned: new_since_last_run(last_run)
\* on the cache as sync left it
ScannedFiles ==
    Range(NewSinceLastRun(resultsDir, results, marker, since).val)

\* C12: the experiments invoke renders are exactly those whose identifier
\* is extracted from some changed file and is a key of the registry, each
\* submitted once however many of its period files changed; a changed file
\* whose identifier the registry lacks is left out and nothing fails for it
C12_RendersChangedAndRegistered ==
    /\ pc \in {"collect", "shutdown", "index", "mark"} =>
           Range(toRun) = {e \in {SlugOfFile(p) : p \in ScannedFiles} :
                              e \in blob.exps}
    /\ DOMAIN task = Range(toRun)
    /\ Len(toRun) = Cardinality(Range(toRun))
    /\ (pc = "failed" /\ exc.at = "load") => ~blob.exists

C12_Witness ==
    /\ pc = "mark"
    /\ {FileFor(IdA, "overall"), FileFor(IdA, "daily"),
        FileFor(IdAB, "weekly")} \subseteq ScannedFiles
    /\ blob.exps = {IdA}
    /\ toRun = <<IdA>>
    /\ rendered[IdA] = "ok"

\* ------------------------------------------------- result files, summary
\* A column of a parsed result file: absent, or its values row by row.
MaxRows == 3
NoColumn == [has |-> FALSE, vals |-> <<>>]
Column(vals) == [has |-> TRUE, vals |-> vals]

\* A result file of one period: not there, there but not parseable by
\* pd.read_json, or a frame with its window_index column.
AbsentFile == [kind |-> "absent", window_index |-> NoColumn]
MalformedFile == [kind |-> "malformed", window_index |-> NoColumn]
FrameFile(col) == [kind |-> "frame", window_index |-> col]

WindowIndices == {1, 2, 3}
WindowColumns ==
    {Column(v) : v \in UNION {[1..n -> WindowIndices] : n \in 0..MaxRows}}
ShortColumns == {c \in WindowColumns : Len(c.vals) <= 1}
FilesWith(cols) ==
    {AbsentFile, MalformedFile} \cup {FrameFile(c) : c \in cols \cup {NoColumn}}

\* An Optional[Result]
NoResult == [some |-> FALSE, data |-> AbsentFile]
SomeResult(f) == [some |-> TRUE, data |-> f]

\* ResultSet.get_result with Result.from_path
GetResult(f) ==
    IF f.kind = "absent" THEN Ok(NoResult)
    ELSE IF f.kind = "malformed" THEN Raise("ValueError")
    ELSE Ok(SomeResult(f))

\* str(n) of a row count
NumStr(n) == <<"0", "1", "2", "3", "4", "5", "6", "7", "8", "9">>[n + 1]

\* " ".join(parts)
RECURSIVE Join(_)
Join(parts) ==
    IF parts = <<>> THEN <<>>
    ELSE IF Len(parts) = 1 THEN parts[1]
    ELSE parts[1] \o <<" ">> \o Join(Tail(parts))

\* the step of available_code for weekly ("W") and daily ("D"): the
\* entries to append, or the exception
WindowCode(letter, f) ==
    LET r == GetResult(f)
    IN  IF ~r.ok THEN r
        ELSE IF ~r.val.some THEN Ok(<<>>)
        ELSE IF ~f.window_index.has THEN Raise("AttributeError")
        ELSE Ok(<<<<letter,
                    NumStr(Cardinality(Range(f.window_index.vals)))>>>>)

\* ResultSet.available_code
AvailableCode(rs) ==
    LET o == GetResult(rs["overall"])
        w == WindowCode("W", rs["weekly"])
        d == WindowCode("D", rs["daily"])
    IN  IF ~o.ok \/ ~w.ok \/ ~d.ok THEN Ok(<<"None">>)
        ELSE Ok(Join((IF o.val.some THEN <<<<"O">>>> ELSE <<>>)
                         \o w.val \o d.val))

ResultSets ==
    {rs \in [Periods -> FilesWith(WindowColumns)] :
        /\ rs["overall"] \in FilesWith(ShortColumns)
        /\ rs["daily"] \in FilesWith(ShortColumns)}

\* the result files of an experiment are as the mirror left them
InitSummary ==
    /\ InitCache
    /\ ret \in {[op |-> "result_set", arg |-> rs, res |-> Ok(<<>>)] :
                   rs \in ResultSets}

\* the index template reads available_code of the experiment
ReadAvailableCode ==
    /\ ret.op = "result_set"
    /\ ret' = [op |-> "available_code", arg |-> ret.arg,
               res |-> AvailableCode(ret.arg)]
    /\ UNCHANGED <<now, cacheDir, resultsDir, results, marker, blob,
                   outputDir, pc, did, exc, mirrorOut, changed, workers,
                   toRun, task, collected, rendered, settled, stamp>>
    /\ UNCHANGED <<since, registry>>

NextSummary == ReadAvailableCode

\* The availability summary of every set of result files.
SpecSummary == InitSummary /\ [][NextSummary]_vars

\* a present file fails to load, or a weekly or daily frame has no
\* window_index column
SummaryFails(rs) ==
    \/ \E per \in Periods : rs[per].kind = "malformed"
    \/ \E per \in {"weekly", "daily"} :
           rs[per].kind = "frame" /\ ~rs[per].window_index.has

\* C13 (as claimed): available_code is "O" when only the overall file is
\* there, "O W3" when overall and a weekly file with three distinct window
\* indices are, the literal "None" when no result file is there, and "None"
\* too when computing it fails
C13_AvailableCode ==
    ret.op = "available_code" =>
        LET rs == ret.arg
            absent(per) == rs[per].kind = "absent"
            frame(per) == rs[per].kind = "frame"
        IN  /\ ret.res.ok
            /\ (frame("overall") /\ absent("weekly") /\ absent("daily")) =>
                   ret.res.val = <<"O">>
            /\ (/\ frame("overall") /\ frame("weekly") /\ absent("daily")
                /\ rs["weekly"].window_index.has
                /\ Cardinality(Range(rs["weekly"].window_index.vals)) = 3) =>
                   ret.res.val = <<"O", " ", "W", "3">>
            /\ (\A per \in Periods : absent(per)) =>
                   ret.res.val = <<"None">>
            /\ SummaryFails(rs) => ret.res.val = <<"None">>

\* ------------------------------------------------ result files, segments
\* The values of a segment column: segment names, or null (NaN).
NaN == "NaN"
SegmentOrder == <<"aa", "all", "b">>
SegmentNames == {SegmentOrder[i] : i \in DOMAIN SegmentOrder}
SegmentValues == SegmentNames \cup {NaN}

\* x < y of two strings
StrLess(x, y) ==
    \E i, k \in DOMAIN SegmentOrder :
        SegmentOrder[i] = x /\ SegmentOrder[k] = y /\ i < k

\* sorted(S) of a set of strings
RECURSIVE Sorted(_)
Sorted(S) ==
    IF S = {} THEN <<>>
    ELSE LET m == CHOOSE x \in S : \A y \in S \ {x} : StrLess(x, y)
         IN  <<m>> \o Sorted(S \ {m})

\* Series.fillna("all")
FillNa(vals) == [i \in DOMAIN vals |-> IF vals[i] = NaN THEN "all" ELSE vals[i]]

\* a parsed result file with its segment column
SegmentFrames ==
    {NoColumn} \cup
    {Column(v) : v \in UNION {[1..n -> SegmentValues] : n \in 0..MaxRows}}

\* Result.segments
Segments(segment) ==
    IF ~segment.has THEN Ok(<<"all">>)
    ELSE LET segments == Range(FillNa(segment.vals))
         IN  IF "all" \notin segments THEN Raise("KeyError")
             ELSE Ok(<<"all">> \o Sorted(segments \ {"all"}))

\* a result file has been parsed
InitSegments ==
    /\ InitCache
    /\ ret \in {[op |-> "result", arg |-> f, res |-> Ok(<<>>)] :
                   f \in SegmentFrames}

\* the report template reads the segments of the result
ReadSegments ==
    /\ ret.op = "result"
    /\ ret' = [op |-> "segments", arg |-> ret.arg, res |-> Segments(ret.arg)]
    /\ UNCHANGED <<now, cacheDir, resultsDir, results, marker, blob,
                   outputDir, pc, did, exc, mirrorOut, changed, workers,
                   toRun, task, collected, rendered, settled, stamp>>
    /\ UNCHANGED <<since, registry>>

NextSegments == ReadSegments

\* The segments of every result file.
SpecSegments == InitSegments /\ [][NextSegments]_vars

\* C14 (as claimed): for every result file, whatever the order of its rows
\* and whether or not a row has segment "all" or null, Result.segments
\* returns "all" first and then the other distinct segment values in
\* strictly increasing order; ["all"] when there is no segment column
C14_SegmentsAllFirst ==
    ret.op = "segments" =>
        /\ ret.res.ok
        /\ LET l == ret.res.val
           IN  /\ l[1] = "all"
               /\ \A i, k \in 2..Len(l) : i < k => StrLess(l[i], l[k])
               /\ \A i \in 2..Len(l) : l[i] # "all"
               /\ Range(l) = {"all"} \cup (Range(ret.arg.vals) \ {NaN})
               /\ ~ret.arg.has => l = <<"all">>

\* --------------------------------------------- the experiment registry
\* The two Experimenter feeds, entry by entry, and the collection built
\* from them. An Optional[int] start_date, an Optional[datetime] startDate
\* (in seconds since the epoch).
MaxFeed == 2
NoStart == [some |-> FALSE, ms |-> 0]
Started(ms) == [some |-> TRUE, ms |-> ms]
NoStartDate == [some |-> FALSE, t |-> 0]
StartDate(t) == [some |-> TRUE, t |-> t]

\* normandy slugs as the feeds spell them
FeedSlugs == {<<"a">>, <<"a", "-", "b">>}

\* str.replace("-", "_")
FilenameSlug(normandy_slug) ==
    [i \in DOMAIN normandy_slug |->
        IF normandy_slug[i] = "-" THEN "_" ELSE normandy_slug[i]]

\* the variants of a legacy entry, the branches of a Nimbus entry
FeedVariants ==
    <<[slug |-> "c", description |-> "control", is_control |-> TRUE],
      [slug |-> "t", description |-> "treatment", is_control |-> FALSE]>>
FeedBranches == <<"c", "t">>
FeedReference == "c"

\* NimbusExperiment.branches_as_variants
BranchesAsVariants(branches, referenceBranch) ==
    [i \in DOMAIN branches |->
        [slug |-> branches[i], description |-> branches[i],
         is_control |-> branches[i] = referenceBranch]]

\* the entries of the legacy (v1) feed, as cattr structures them; the i-th
\* entry of a feed is named after its place
LegacyName(i) == <<"legacy", i>>
NimbusName(i) == <<"nimbus", i>>
LegacyEntries(i) ==
    {[name |-> LegacyName(i), slug |-> s, normandy_slug |-> s,
      variants |-> FeedVariants, start_date |-> d] :
        s \in FeedSlugs, d \in {NoStart, Started(1000)}}
NimbusEntries(i) ==
    {[slug |-> s, userFacingName |-> NimbusName(i),
      branches |-> FeedBranches, startDate |-> d,
      referenceBranch |-> FeedReference] :
        s \in FeedSlugs, d \in {NoStartDate, StartDate(0), StartDate(1)}}
LegacyFeeds ==
    UNION {{f \in [1..n -> UNION {LegacyEntries(i) : i \in 1..n}] :
               \A i \in 1..n : f[i] \in LegacyEntries(i)} : n \in 0..MaxFeed}
NimbusFeeds ==
    UNION {{f \in [1..n -> UNION {NimbusEntries(i) : i \in 1..n}] :
               \A i \in 1..n : f[i] \in NimbusEntries(i)} : n \in 0..MaxFeed}

\* An Optional[Experiment]
NoExperiment == [some |-> FALSE]
SomeExperiment(e) == [some |-> TRUE, exp |-> e]

\* to_experiment_maybe without the test of startDate
ToExperimentMaybe_Always(n) ==
    SomeExperiment([name |-> n.userFacingName, slug |-> n.slug,
                    normandy_slug |-> n.slug,
                    variants |-> BranchesAsVariants(n.branches,
                                                    n.referenceBranch),
                    start_date |-> IF n.startDate.some
                                   THEN Started(n.startDate.t * 1000)
                                   ELSE NoStart])

\* NimbusExperiment.to_experiment_maybe
ToExperimentMaybe(n) ==
    IF ~n.startDate.some THEN NoExperiment
    ELSE SomeExperiment([name |-> n.userFacingName, slug |-> n.slug,
                         normandy_slug |-> n.slug,
                         variants |-> BranchesAsVariants(n.branches,
                                                         n.referenceBranch),
                         start_date |-> Started(n.startDate.t * 1000)])

\* {x.filename_slug: x for x in l if x}: a later x replaces an earlier one
\* of the same key
RECURSIVE DictOf(_)
DictOf(l) ==
    IF l = <<>> THEN [k \in {} |-> NoExperiment]
    ELSE LET d == DictOf(SubSeq(l, 1, Len(l) - 1))
             x == l[Len(l)]
         IN  IF ~x.some THEN d
             ELSE LET key == FilenameSlug(x.exp.normandy_slug)
                  IN  [k \in DOMAIN d \cup {key} |->
                          IF k = key THEN x.exp ELSE d[k]]

\* from_experimenter keeping only the entries that have a start date
FromExperimenter_DropUnstarted(legacy, nimbus) ==
    DictOf([i \in DOMAIN legacy |->
                IF legacy[i].start_date.some THEN SomeExperiment(legacy[i])
                ELSE NoExperiment]
           \o [i \in DOMAIN nimbus |-> ToExperimentMaybe(nimbus[i])])

\* ExperimentCollection.from_experimenter
FromExperimenter(legacy, nimbus) ==
    DictOf([i \in DOMAIN legacy |-> SomeExperiment(legacy[i])]
           \o [i \in DOMAIN nimbus |-> ToExperimentMaybe(nimbus[i])])

\* the two feeds have answered
InitRegistry ==
    /\ InitCache
    /\ ret \in {[op |-> "feeds", arg |-> [legacy |-> lf, nimbus |-> nf],
                 res |-> Ok(<<>>)] : lf \in LegacyFeeds, nf \in NimbusFeeds}

\* sync builds the collection from the feeds
BuildCollection ==
    /\ ret.op = "feeds"
    /\ ret' = [op |-> "from_experimenter", arg |-> ret.arg,
               res |-> Ok(FromExperimenter(ret.arg.legacy, ret.arg.nimbus))]
    /\ UNCHANGED <<now, cacheDir, resultsDir, results, marker, blob,
                   outputDir, pc, did, exc, mirrorOut, changed, workers,
                   toRun, task, collected, rendered, settled, stamp>>
    /\ UNCHANGED <<since, registry>>

NextRegistry == BuildCollection

\* The collection built from every pair of feeds.
SpecRegistry == InitRegistry /\ [][NextRegistry]_vars

\* the experiments of the collection just built
Built == {ret.res.val[k] : k \in DOMAIN ret.res.val}

\* C15: a Nimbus entry without a start date is absent from the collection:
\* no key maps to an experiment made from it, and no experiment made from a
\* Nimbus entry is there with a null start date
C15_UnstartedNimbusAbsent ==
    ret.op = "from_experimenter" =>
        /\ \A i \in DOMAIN ret.arg.nimbus :
               ~ret.arg.nimbus[i].startDate.some =>
                   \A e \in Built : e.name # ret.arg.nimbus[i].userFacingName
        /\ \A e \in Built, i \in DOMAIN ret.arg.nimbus :
               e.name = NimbusName(i) => e.start_date.some

C15_Witness ==
    /\ ret.op = "from_experimenter"
    /\ Len(ret.arg.nimbus) = 2
    /\ ~ret.arg.nimbus[1].startDate.some
    /\ ret.arg.nimbus[2].startDate.some
    /\ ret.arg.nimbus[1].slug = <<"a", "-", "b">>
    /\ ret.arg.nimbus[2].slug = <<"a">>
    /\ ret.arg.legacy = <<>>
    /\ DOMAIN ret.res.val = {<<"a">>}

\* the entries from_experimenter puts in its list, in order: every legacy
\* entry, then the Nimbus entries that have a start date
Normalised(feeds) ==
    [i \in DOMAIN feeds.legacy |-> SomeExperiment(feeds.legacy[i])]
        \o [i \in DOMAIN feeds.nimbus |->
               IF feeds.nimbus[i].startDate.some
               THEN ToExperimentMaybe_Always(feeds.nimbus[i])
               ELSE NoExperiment]

\* C16 (as claimed): every experiment of the collection, whichever feed it
\* came from, has a non-null start date
C16_EveryStartDateSet ==
    ret.op = "from_experimenter" => \A e \in Built : e.start_date.some

\* C16 (amended): every experiment of the collection that was made from a
\* Nimbus entry has a non-null start date, while a legacy entry is kept as
\* the feed gave it, with a null start date too: the collection maps the
\* filename_slug of every legacy entry and of every started Nimbus entry to
\* the last such entry of that key, and an experiment with a null start
\* date in it is a legacy entry
C16_NimbusStartDateSet ==
    ret.op = "from_experimenter" =>
        LET l == Normalised(ret.arg)
            kept == {i \in DOMAIN l : l[i].some}
            key(i) == FilenameSlug(l[i].exp.normandy_slug)
        IN  /\ DOMAIN ret.res.val = {key(i) : i \in kept}
            /\ \A i \in kept :
                   (\A k \in kept : k > i => key(k) # key(i)) =>
                       ret.res.val[key(i)] = l[i].exp
            /\ \A e \in Built :
                   ~e.start_date.some =>
                       \E i \in DOMAIN ret.arg.legacy : e = ret.arg.legacy[i]

C16_Witness ==
    /\ ret.op = "from_experimenter"
    /\ Len(ret.arg.legacy) = 1
    /\ Len(ret.arg.nimbus) = 2
    /\ ~ret.arg.legacy[1].start_date.some
    /\ ret.arg.legacy[1].normandy_slug = <<"a", "-", "b">>
    /\ ~ret.arg.nimbus[1].startDate.some
    /\ ret.arg.nimbus[2].startDate.some
    /\ ret.arg.nimbus[2].slug = <<"a">>
    /\ DOMAIN ret.res.val = {<<"a">>, <<"a", "_", "b">>}
    /\ ~ret.res.val[<<"a", "_", "b">>].start_date.some
    /\ ret.res.val[<<"a">>].start_date.some

\* C17: between syncs the metadata blob is the registry: it always holds
\* what the last successful sync normalised (nothing before the first one
\* and after clean), whatever scans and mark_complete calls come between,
\* and a failed sync leaves it; experiments returns exactly that registry,
\* and raises when there is none
C17_BlobIsTheRegistry ==
    /\ blob = IF registry.some THEN BlobOf(registry.exps) ELSE NoBlob
    /\ ret.op = "experiments" =>
           /\ registry.some => (ret.res.ok /\ ret.res.val = registry.exps)
           /\ ~registry.some => (~ret.res.ok /\ ret.res.err = "FileNotFoundError")

C17_Witness ==
    /\ ret.op = "experiments"
    /\ ret.res.ok
    /\ ret.res.val = {IdA}
    /\ marker.kind = "iso"
    /\ stamp > MinTime
    /\ results # NoFiles
    /\ registry = RegistryOf({IdA})

\* ------------------------------------------------- the control branch
\* The variants of an experiment, in the order of the list.
MaxVariants == 3
VariantSlugs == {"c", "t"}
Variants ==
    [slug : VariantSlugs, description : {"d"}, is_control : BOOLEAN]
VariantLists == UNION {[1..n -> Variants] : n \in 0..MaxVariants}

\* Experiment.control_branch_slug: the loop leaves v at the first control
\* variant, or at the last variant when it runs to the end; v is unbound
\* when there is no variant
ControlBranchSlug(variants) ==
    LET controls == {i \in DOMAIN variants : variants[i].is_control}
    IN  IF variants = <<>> THEN Raise("UnboundLocalError")
        ELSE IF controls = {} THEN Ok(variants[Len(variants)].slug)
        ELSE Ok(variants[CHOOSE i \in controls :
                             \A k \in controls : i <= k].slug)

\* an experiment of the registry with its variants
InitControl ==
    /\ InitCache
    /\ ret \in {[op |-> "experiment", arg |-> v, res |-> Ok("")] :
                   v \in VariantLists}

\* the report template reads control_branch_slug
ReadControlBranch ==
    /\ ret.op = "experiment"
    /\ ret' = [op |-> "control_branch_slug", arg |-> ret.arg,
               res |-> ControlBranchSlug(ret.arg)]
    /\ UNCHANGED <<now, cacheDir, resultsDir, results, marker, blob,
                   outputDir, pc, did, exc, mirrorOut, changed, workers,
                   toRun, task, collected, rendered, settled, stamp>>
    /\ UNCHANGED <<since, registry>>

NextControl == ReadControlBranch

\* The control branch of every list of variants.
SpecControl == InitControl /\ [][NextControl]_vars

\* C18 (as claimed): for an experiment none of whose variants is marked as
\* control, control_branch_slug signals a failure and returns no slug; for
\* one with exactly one control variant it returns the slug of that variant
C18_ControlBranchDefined ==
    ret.op = "control_branch_slug" =>
        LET controls == {i \in DOMAIN ret.arg : ret.arg[i].is_control}
        IN  /\ controls = {} => ~ret.res.ok
            /\ Cardinality(controls) = 1 =>
                   \A i \in controls :
                       ret.res.ok /\ ret.res.val = ret.arg[i].slug

\* C19 (as claimed): once a render task has raised, the index is not
\* written and mark_complete is not called in this run, and every file the
\* scan of this run selected is returned by a default new_since_last_run()
C19_RaisedRenderSelectedAgain ==
    exc.at = "render" =>
        /\ pc \in {"shutdown", "failed"}
        /\ "index" \notin did
        /\ "mark" \notin did
        /\ ScannedFiles \subseteq DefaultNew

\* C19 (amended): once a render task has raised, the run ends without the
\* index and without mark_complete; from the end of sync to the end of the
\* run the marker, the mirrored files and the blob are not written; and the
\* files the scan selected are returned by a default new_since_last_run()
\* when the scan was the default one or its since was not earlier than the
\* marker, those of them newer than the marker otherwise
C19_RaisedRenderLeavesCache ==
    /\ [](exc.at = "render" =>
              /\ pc \in {"shutdown", "failed"}
              /\ "index" \notin did
              /\ "mark" \notin did
              /\ (~since.some \/ since.t >= LastRun(marker)) =>
                     ScannedFiles \subseteq DefaultNew
              /\ {p \in ScannedFiles : results[p] > LastRun(marker)}
                     \subseteq DefaultNew)
    /\ [][(pc \in {"scan", "submit", "collect", "shutdown"}
               \/ exc.at = "render") =>
              UNCHANGED <<marker, resultsDir, results, blob>>]_vars
    /\ [][(pc = "failed" /\ exc.at = "render") =>
              pc' \in {"failed", "idle"}]_vars

C19_Witness ==
    /\ pc = "failed"
    /\ exc.at = "render"
    /\ since.some
    /\ since.t >= LastRun(marker)
    /\ marker.kind = "iso"
    /\ ScannedFiles # {}
    /\ \E e \in DOMAIN task : task[e] = "raised"

\* a mirrored file newer than the persisted marker and not newer than the
\* since that --updated-seconds-ago gave the scan of this run
OutsideWindow(p) ==
    /\ since.some
    /\ IsNewer(results[p], LastRun(marker))
    /\ ~IsNewer(results[p], since.t)

\* C20 (as claimed): in a run with --updated-seconds-ago that has reached
\* mark_complete, the experiment of a file newer than the marker but older
\* than the window is not among the experiments rendered; and when the run
\* is done no mirrored file is returned by a default new_since_last_run()
C20_FileOutsideWindowNotRendered ==
    /\ pc = "mark" =>
           \A p \in DOMAIN results :
               OutsideWindow(p) => SlugOfFile(p) \notin Range(toRun)
    /\ pc = "done" => DefaultNew = {}

\* C20 (amended): with --updated-seconds-ago the changed set is computed
\* against now - X and not against the marker, so a file newer than the
\* marker but not newer than now - X is not selected, and its experiment is
\* rendered only when another of its files is newer than now - X; on
\* completion the marker is still set to the current time, after which no
\* mirrored file is newer than the marker, and a file not newer than the
\* marker stays so until it is written again
C20_FileOutsideWindowNotSelected ==
    /\ [](pc \in {"submit", "collect", "shutdown", "index", "mark"}
              /\ since.some =>
              /\ changed = {SlugOfFile(p) :
                               p \in {q \in DOMAIN results :
                                         IsNewer(results[q], since.t)}}
              /\ \A p \in DOMAIN results :
                     OutsideWindow(p) =>
                         /\ p \notin ScannedFiles
                         /\ SlugOfFile(p) \in Range(toRun) =>
                                \E q \in ScannedFiles :
                                    SlugOfFile(q) = SlugOfFile(p))
    /\ [][(pc = "mark" /\ pc' = "done") =>
              /\ marker' = AppendNewline(IsoFormat(now))
              /\ \A p \in DOMAIN results :
                     ~IsNewer(results[p], LastRun(marker'))]_vars
    /\ [][\A p \in DOMAIN results \cap DOMAIN results' :
              (results'[p] = results[p]
                   /\ ~IsNewer(results[p], LastRun(marker))) =>
                  ~IsNewer(results'[p], LastRun(marker'))]_vars

C20_Witness ==
    /\ pc = "done"
    /\ since.some
    /\ since.t > MinTime
    /\ \E p \in DOMAIN results :
           /\ ~IsNewer(results[p], since.t)
           /\ rendered[SlugOfFile(p)] = "never"
           /\ SlugOfFile(p) \in blob.exps
    /\ toRun # <<>>
    /\ DefaultNew = {}

====
